---- MODULE Spec2Model ----
(***************************************************************************)
(* Protocol Tracker (app.py): a Streamlit task/subtask tracker over one    *)
(* SQLite table.  Text is modelled as a sequence of one-character strings  *)
(* (whole words such as a month name are one element), so that parsing,    *)
(* formatting and (de)serialisation are computed, not assumed.             *)
(***************************************************************************)
EXTENDS Integers, Sequences, FiniteSets, TLC

(***************************************************************************)
(* Bounds of the model.                                                    *)
(***************************************************************************)
MaxTasks == 2
MaxViewTasks == 2
MaxViewSubs == 1
MaxRows == 2
MaxLines == 3

(***************************************************************************)
(* Characters.                                                             *)
(***************************************************************************)
NL == "\n"
QUOTE == "\""
Digits == {"0", "1", "2", "3", "4", "5", "6", "7", "8", "9"}
DigitSeq == <<"0", "1", "2", "3", "4", "5", "6", "7", "8", "9">>

IsDigit(c) == c \in Digits

\* Python's \s on the characters of the model: blank, tab, newline.
IsSpace(c) == c \in {" ", "\t", NL}

DigitVal(c) == CHOOSE n \in 0..9 : DigitSeq[n + 1] = c

DigitChar(n) == DigitSeq[n + 1]

\* int(s) for a string of decimal digits.
RECURSIVE int(_)
int(s) ==
  IF Len(s) = 0 THEN 0
  ELSE 10 * int(SubSeq(s, 1, Len(s) - 1)) + DigitVal(s[Len(s)])

\* f"{n:02d}" for 0 <= n <= 99.
Fmt02d(n) == <<DigitChar(n \div 10), DigitChar(n % 10)>>

(***************************************************************************)
(* datetime.strptime(text, "%m%d") and strftime("%B %d").                  *)
(***************************************************************************)
DefaultYear == 1900

IsLeap(y) == (y % 4 = 0) /\ ((y % 100 # 0) \/ (y % 400 = 0))

DaysInMonth(y, m) ==
  IF m = 2 THEN (IF IsLeap(y) THEN 29 ELSE 28)
  ELSE IF m \in {4, 6, 9, 11} THEN 30 ELSE 31

MonthName ==
  <<"January", "February", "March", "April", "May", "June", "July",
    "August", "September", "October", "November", "December">>

At(t, i) == IF i >= 1 /\ i <= Len(t) THEN t[i] ELSE ""

\* The alternatives of %m, 1[0-2]|0[1-9]|[1-9], in order: the lengths that
\* match at position i.
MonthAlts(t, i) ==
  (IF At(t, i) = "1" /\ At(t, i + 1) \in {"0", "1", "2"} THEN <<2>> ELSE <<>>)
  \o (IF At(t, i) = "0" /\ At(t, i + 1) \in Digits \ {"0"} THEN <<2>> ELSE <<>>)
  \o (IF At(t, i) \in Digits \ {"0"} THEN <<1>> ELSE <<>>)

\* The alternatives of %d, 3[0-1]|[1-2]\d|0[1-9]|[1-9]| [1-9], in order.
DayAlts(t, i) ==
  (IF At(t, i) = "3" /\ At(t, i + 1) \in {"0", "1"} THEN <<2>> ELSE <<>>)
  \o (IF At(t, i) \in {"1", "2"} /\ At(t, i + 1) \in Digits THEN <<2>> ELSE <<>>)
  \o (IF At(t, i) = "0" /\ At(t, i + 1) \in Digits \ {"0"} THEN <<2>> ELSE <<>>)
  \o (IF At(t, i) \in Digits \ {"0"} THEN <<1>> ELSE <<>>)
  \o (IF At(t, i) = " " /\ At(t, i + 1) \in Digits \ {"0"} THEN <<2>> ELSE <<>>)

\* The first match of the compiled format (month alternatives outermost), as
\* the pair of lengths, or <<>> when the format does not match.
FormatMatch(t) ==
  LET First(ms, ok) ==
        IF ok = {} THEN <<>>
        ELSE LET Pair(m_len) == <<m_len, DayAlts(t, 1 + m_len)[1]>>
             IN Pair(ms[CHOOSE x \in ok : \A y \in ok : x <= y])
      Months(ms) ==
        First(ms, {k \in 1..Len(ms) : Len(DayAlts(t, 1 + ms[k])) > 0})
  IN Months(MonthAlts(t, 1))

\* [ok |-> FALSE] stands for ValueError.
strptime(t) ==
  LET ValueError == [ok |-> FALSE, month |-> 0, day |-> 0]
      Date(m, d) ==
        IF d <= DaysInMonth(DefaultYear, m)
        THEN [ok |-> TRUE, month |-> m, day |-> d]
        ELSE ValueError
      Day(ds) == int(IF ds[1] = " " THEN Tail(ds) ELSE ds)
      Parsed(fm) ==
        IF fm = <<>> THEN ValueError
        ELSE IF fm[1] + fm[2] # Len(t) THEN ValueError
        ELSE Date(int(SubSeq(t, 1, fm[1])),
                  Day(SubSeq(t, fm[1] + 1, fm[1] + fm[2])))
  IN Parsed(FormatMatch(t))

strftime(date) == <<MonthName[date.month], " ">> \o Fmt02d(date.day)

\* Lines 16-22: the date string of a 4-digit code.
formatDateCode(code) ==
  LET month == int(SubSeq(code, 1, 2))
      day == int(SubSeq(code, 3, 4))
      date_str(date_obj) ==
        IF date_obj.ok THEN strftime(date_obj)
        ELSE <<"Invalid date (">> \o code \o <<")">>
  IN date_str(strptime(Fmt02d(month) \o Fmt02d(day)))

(***************************************************************************)
(* extract_subtasks: re.findall(r"(\d{4}):\s*(.+)", description_text).     *)
(***************************************************************************)
\* First position >= k that is past the end or holds a newline.
RECURSIVE EndOfLine(_, _)
EndOfLine(t, k) ==
  IF k > Len(t) \/ t[k] = NL THEN k ELSE EndOfLine(t, k + 1)

\* First position >= k that is past the end or holds a non-space.
RECURSIVE SkipSpace(_, _)
SkipSpace(t, k) ==
  IF k > Len(t) \/ ~IsSpace(t[k]) THEN k ELSE SkipSpace(t, k + 1)

\* Where (.+) starts after the colon at p - 1: \s* is greedy and gives back
\* characters until .+ can match one non-newline character.  0: no match.
TitleStart(t, p) ==
  LET Last(c) == IF c = {} THEN 0 ELSE CHOOSE k \in c : \A x \in c : x <= k
  IN Last({k \in p..SkipSpace(t, p) : k <= Len(t) /\ t[k] # NL})

\* The match of the pattern starting exactly at i, or ok = FALSE.
MatchAt(t, i) ==
  LET NoMatch == [ok |-> FALSE, code |-> <<>>, text |-> <<>>, end |-> i]
      Title(s, e) ==
        [ok |-> TRUE, code |-> SubSeq(t, i, i + 3),
         text |-> SubSeq(t, s, e - 1), end |-> e]
      From(s) == IF s = 0 THEN NoMatch ELSE Title(s, EndOfLine(t, s))
  IN IF i + 4 <= Len(t)
        /\ \A k \in i..(i + 3) : IsDigit(t[k])
        /\ t[i + 4] = ":"
     THEN From(TitleStart(t, i + 5))
     ELSE NoMatch

\* Non-overlapping matches, scanning left to right from i.
RECURSIVE findall(_, _)
findall(t, i) ==
  LET Scan(m) == IF m.ok THEN <<m>> \o findall(t, m.end)
                 ELSE findall(t, i + 1)
  IN IF i > Len(t) THEN <<>> ELSE Scan(MatchAt(t, i))

NewSubtask(code, text) ==
  [date_code |-> code, date_str |-> formatDateCode(code),
   title |-> text, status |-> "Not Started"]

extract_subtasks(description_text) ==
  LET subtasks(matches) ==
        [k \in 1..Len(matches) |->
           NewSubtask(matches[k].code, matches[k].text)]
  IN subtasks(findall(description_text, 1))

(***************************************************************************)
(* json.dumps / json.loads of a subtask list.  The serialised text is a    *)
(* sequence of tokens; insignificant blanks are left out.                  *)
(***************************************************************************)
JsonString(s) == <<QUOTE>> \o s \o <<QUOTE>>

JsonMember(k, v) == JsonString(<<k>>) \o <<":">> \o JsonString(v)

JsonObject(sub) ==
  <<"{">> \o JsonMember("date_code", sub.date_code)
  \o <<",">> \o JsonMember("date_str", sub.date_str)
  \o <<",">> \o JsonMember("title", sub.title)
  \o <<",">> \o JsonMember("status", <<sub.status>>)
  \o <<"}">>

RECURSIVE JsonElements(_)
JsonElements(subs) ==
  IF Len(subs) = 0 THEN <<>>
  ELSE IF Len(subs) = 1 THEN JsonObject(subs[1])
  ELSE JsonObject(subs[1]) \o <<",">> \o JsonElements(Tail(subs))

dumps(subs) == <<"[">> \o JsonElements(subs) \o <<"]">>

\* A parse result: ok = FALSE stands for json.JSONDecodeError.
ParseFail == [ok |-> FALSE, val |-> <<>>, pos |-> 0]

RECURSIVE FindQuote(_, _)
FindQuote(t, i) ==
  IF i > Len(t) THEN 0
  ELSE IF t[i] = QUOTE THEN i ELSE FindQuote(t, i + 1)

ParseString(t, i) ==
  LET Closed(j) ==
        IF j = 0 THEN ParseFail
        ELSE [ok |-> TRUE, val |-> SubSeq(t, i + 1, j - 1), pos |-> j + 1]
  IN IF At(t, i) # QUOTE THEN ParseFail ELSE Closed(FindQuote(t, i + 1))

\* A status is written as one word; every other value is kept as text.
MemberValue(k, v) == IF k = "status" /\ Len(v) = 1 THEN v[1] ELSE v

\* Members of an object from position i on, added to the dict d.
RECURSIVE ParseMembers(_, _, _)
ParseMembers(t, i, d) ==
  LET After(pos, d2) ==
        IF At(t, pos) = "," THEN ParseMembers(t, pos + 1, d2)
        ELSE IF At(t, pos) = "}" THEN [ok |-> TRUE, val |-> d2, pos |-> pos + 1]
        ELSE ParseFail
      Value(key, v) ==
        IF ~v.ok THEN ParseFail
        ELSE After(v.pos, [x \in DOMAIN d \cup {key} |->
                             IF x = key THEN MemberValue(key, v.val) ELSE d[x]])
      Key(k) ==
        IF ~k.ok \/ Len(k.val) # 1 \/ At(t, k.pos) # ":" THEN ParseFail
        ELSE Value(k.val[1], ParseString(t, k.pos + 1))
  IN Key(ParseString(t, i))

ParseObject(t, i) ==
  IF At(t, i) # "{" THEN ParseFail
  ELSE IF At(t, i + 1) = "}" THEN [ok |-> TRUE, val |-> <<>>, pos |-> i + 2]
  ELSE ParseMembers(t, i + 1, <<>>)

RECURSIVE ParseElements(_, _, _)
ParseElements(t, i, acc) ==
  LET After(pos, acc2) ==
        IF At(t, pos) = "," THEN ParseElements(t, pos + 1, acc2)
        ELSE IF At(t, pos) = "]" THEN [ok |-> TRUE, val |-> acc2, pos |-> pos + 1]
        ELSE ParseFail
      Element(o) == IF ~o.ok THEN ParseFail ELSE After(o.pos, Append(acc, o.val))
  IN Element(ParseObject(t, i))

ParseArray(t, i) ==
  IF At(t, i) # "[" THEN ParseFail
  ELSE IF At(t, i + 1) = "]" THEN [ok |-> TRUE, val |-> <<>>, pos |-> i + 2]
  ELSE ParseElements(t, i + 1, <<>>)

loads(t) ==
  LET Whole(r) == IF r.ok /\ r.pos = Len(t) + 1 THEN [ok |-> TRUE, val |-> r.val]
                  ELSE [ok |-> FALSE, val |-> <<>>]
  IN Whole(ParseArray(t, 1))

(***************************************************************************)
(* The tasks table (rows in insertion order; the id column is never read)  *)
(* and the statements the handlers execute on it.                          *)
(***************************************************************************)
Row(project, task, description, status, subtasks_json) ==
  [project |-> project, task |-> task, description |-> description,
   status |-> status, subtasks |-> subtasks_json]

Task(project, task, description, status, subtasks) ==
  [project |-> project, task |-> task, description |-> description,
   status |-> status, subtasks |-> subtasks]

\* WHERE project = ? AND task = ?
KeyMatch(r, project, task) == r.project = project /\ r.task = task

SqlInsert(rows, r) == Append(rows, r)

SqlUpdateSubtasks(rows, subtasks_json, project, task) ==
  [k \in DOMAIN rows |->
     IF KeyMatch(rows[k], project, task)
     THEN [rows[k] EXCEPT !.subtasks = subtasks_json] ELSE rows[k]]

SqlUpdateDescription(rows, new_desc, subtasks_json, project, task) ==
  [k \in DOMAIN rows |->
     IF KeyMatch(rows[k], project, task)
     THEN [rows[k] EXCEPT !.description = new_desc, !.subtasks = subtasks_json]
     ELSE rows[k]]

SqlDelete(rows, project, task) ==
  SelectSeq(rows, LAMBDA r : ~KeyMatch(r, project, task))

\* load_tasks_from_db: ok = FALSE when json.loads raises on some row (the
\* exception is not caught, so no list is returned).
RECURSIVE LoadRows(_)
LoadRows(rows) ==
  LET Loaded(row, subtasks, rest) ==
        IF subtasks.ok /\ rest.ok
        THEN [ok |-> TRUE,
              tasks |-> <<Task(row.project, row.task, row.description,
                               row.status, subtasks.val)>> \o rest.tasks]
        ELSE [ok |-> FALSE, tasks |-> <<>>]
  IN IF Len(rows) = 0 THEN [ok |-> TRUE, tasks |-> <<>>]
     ELSE Loaded(rows[1], loads(rows[1].subtasks), LoadRows(Tail(rows)))

load_tasks_from_db(rows) == LoadRows(rows)

\* "\n".join(lines)
RECURSIVE JoinLines(_)
JoinLines(lines) ==
  IF Len(lines) = 0 THEN <<>>
  ELSE IF Len(lines) = 1 THEN lines[1]
  ELSE lines[1] \o <<NL>> \o JoinLines(Tail(lines))

\* s.get(key, default)
get(s, key, default) == IF key \in DOMAIN s THEN s[key] ELSE default

\* f"{s.get('date_str', '?')}: {s.get('title', '?')} [{s.get('status', '?')}]"
SubtaskLine(s) ==
  get(s, "date_str", <<"?">>) \o <<":", " ">> \o get(s, "title", <<"?">>)
  \o <<" ", "[", get(s, "status", "?"), "]">>

INVALID_SUBTASKS == <<"[Invalid subtasks]">>

\* Variant: a subtask that lacks a field makes the whole field the literal.
format_subtasks_Strict(subtask_json) ==
  LET Lines(r) ==
        IF r.ok /\ \A k \in DOMAIN r.val :
                     {"date_str", "title", "status"} \subseteq DOMAIN r.val[k]
        THEN JoinLines([k \in DOMAIN r.val |-> SubtaskLine(r.val[k])])
        ELSE INVALID_SUBTASKS
  IN Lines(loads(subtask_json))

\* format_subtasks of export_all_tasks_to_csv: the except clause gives the
\* literal when json.loads raises.
format_subtasks(subtask_json) ==
  LET Lines(r) ==
        IF r.ok THEN JoinLines([k \in DOMAIN r.val |-> SubtaskLine(r.val[k])])
        ELSE INVALID_SUBTASKS
  IN Lines(loads(subtask_json))

\* The rows of the data frame export_all_tasks_to_csv writes.
export_all_tasks_to_csv(rows) ==
  [k \in DOMAIN rows |->
     [Project |-> rows[k].project, Task |-> rows[k].task,
      Description |-> rows[k].description, Status |-> rows[k].status,
      Subtasks |-> format_subtasks(rows[k].subtasks)]]

(***************************************************************************)
(* Inputs of the forms.                                                    *)
(***************************************************************************)
\* What the Create Task form can be given: names that are empty, blank or
\* filled in, and the three entries of the status select box.
ProjectInputs == {<<>>, <<" ">>, <<"A">>, <<"B">>}
TaskInputs == {<<>>, <<" ">>, <<"t">>}
StatusOptions == {"Not Started", "In Progress", "Completed"}

\* The filled-in names and the status the session below works with.
Projects == {<<"A">>, <<"B">>}
TaskNames == {<<"t">>}
StatusInputs == {"Not Started"}

DescTwo == <<"0", "6", "1", "0", ":", " ", "a", NL,
             "0", "2", "3", "0", ":", " ", "b">>
DescriptionInputs == {<<>>, DescTwo}

\* datetime.now().strftime("%m%d") on the days the model looks at.
Todays == {<<"0", "6", "1", "5">>, <<"0", "1", "0", "1">>, <<"1", "2", "3", "1">>}

ALL_PROJECTS == <<"All Projects">>
ALL_TASKS == <<"All Tasks">>

\* Python truth value of a string.
Truthy(s) == Len(s) > 0

(***************************************************************************)
(* State.                                                                  *)
(***************************************************************************)
VARIABLES
  store,      \* rows of the tasks table of tasks.db
  tasks,      \* st.session_state.tasks
  edit_mode,  \* the idx whose st.session_state.edit_mode entry is True
  message,    \* what the last script run issued with st.success, st.warning
  dup_seen,   \* some Save Task inserted a (project, task) pair already present
  view,       \* what the Daily Tasks or Dashboard page rendered last
  other       \* session_state of a second browser session, while it waits

vars == <<store, tasks, edit_mode, message, dup_seen, view, other>>

\* A second session that has loaded nothing.
NoSession == [tasks |-> <<>>, edit_mode |-> {}]

NoView == [page |-> "none", today |-> <<>>, rows |-> <<>>,
           overdue_count |-> 0, today_count |-> 0]

\* A fresh tasks.db: init_db creates the empty table, the session loads it.
Init ==
  /\ store = <<>>
  /\ tasks = <<>>
  /\ edit_mode = {}
  /\ message = "none"
  /\ dup_seen = FALSE
  /\ other = NoSession
  /\ view = NoView

(***************************************************************************)
(* Create Task page.                                                       *)
(***************************************************************************)
HasKey(list, project, task) ==
  \E k \in DOMAIN list : KeyMatch(list[k], project, task)

SaveTask(project, task, description, status) ==
  IF Truthy(project) /\ Truthy(task)
  THEN /\ Len(tasks) < MaxTasks
       /\ Len(store) < MaxTasks
       /\ LET Insert(subtasks) ==
                /\ store' = SqlInsert(store, Row(project, task, description,
                                                 status, dumps(subtasks)))
                /\ tasks' = Append(tasks, Task(project, task, description,
                                               status, subtasks))
          IN Insert(extract_subtasks(description))
       /\ message' = "saved"
       /\ dup_seen' = (dup_seen \/ HasKey(tasks, project, task)
                                \/ HasKey(store, project, task))
       /\ UNCHANGED <<edit_mode, view, other>>
  ELSE /\ message' = "warning"
       /\ UNCHANGED <<store, tasks, edit_mode, dup_seen, view, other>>

(***************************************************************************)
(* Current Tasks page.                                                     *)
(***************************************************************************)
Range(f) == {f[k] : k \in DOMAIN f}

ProjectChoices(list) == {ALL_PROJECTS} \cup {list[k].project : k \in DOMAIN list}

\* Positions in st.session_state.tasks of the tasks the project filter keeps,
\* in list order (the filtered list holds the same task objects).
ByProject(list, selected_project) ==
  SelectSeq([k \in DOMAIN list |-> k],
            LAMBDA k : selected_project = ALL_PROJECTS
                       \/ list[k].project = selected_project)

TaskChoices(list, selected_project) ==
  {ALL_TASKS} \cup {list[k].task : k \in Range(ByProject(list, selected_project))}

filtered(list, selected_project, selected_task) ==
  IF selected_task # ALL_TASKS
  THEN SelectSeq(ByProject(list, selected_project),
                 LAMBDA k : list[k].task = selected_task)
  ELSE ByProject(list, selected_project)

\* list.pop(idx), idx counted from 0.
pop(list, idx) == SubSeq(list, 1, idx) \o SubSeq(list, idx + 2, Len(list))

\* The page lists tasks only when there are some; the select boxes offer the
\* projects and tasks present; the loop gives each listed task its idx.
Shown(selected_project, selected_task, idx) ==
  /\ Len(tasks) > 0
  /\ selected_project \in ProjectChoices(tasks)
  /\ selected_task \in TaskChoices(tasks, selected_project)
  /\ idx \in 0..(Len(filtered(tasks, selected_project, selected_task)) - 1)

\* Position in st.session_state.tasks of the task listed at idx.
Listed(selected_project, selected_task, idx) ==
  filtered(tasks, selected_project, selected_task)[idx + 1]

\* Variant: the button toggles the status.
CompleteEffect_Toggle(list, rows, i, sub_idx) ==
  LET task == list[i]
      subtasks == [task.subtasks EXCEPT ![sub_idx + 1].status =
                     IF @ = "Completed" THEN "Not Started" ELSE "Completed"]
  IN [tasks |-> [list EXCEPT ![i].subtasks = subtasks],
      store |-> SqlUpdateSubtasks(rows, dumps(subtasks), task.project, task.task)]

\* Variant: the UPDATE sets only the completed subtask in the stored list.
CompleteEffect_Merge(list, rows, i, sub_idx) ==
  LET task == list[i]
      subtasks == [task.subtasks EXCEPT ![sub_idx + 1].status = "Completed"]
      Stored(r) ==
        IF loads(r.subtasks).ok /\ sub_idx < Len(loads(r.subtasks).val)
        THEN dumps([loads(r.subtasks).val EXCEPT
                      ![sub_idx + 1].status = "Completed"])
        ELSE r.subtasks
  IN [tasks |-> [list EXCEPT ![i].subtasks = subtasks],
      store |-> [k \in DOMAIN rows |->
                   IF KeyMatch(rows[k], task.project, task.task)
                   THEN [rows[k] EXCEPT !.subtasks = Stored(rows[k])]
                   ELSE rows[k]]]

\* Variant: the task takes the status Completed with its last open subtask.
CompleteEffect_DeriveStatus(list, rows, i, sub_idx) ==
  LET task == list[i]
      subtasks == [task.subtasks EXCEPT ![sub_idx + 1].status = "Completed"]
      status == IF \A k \in DOMAIN subtasks : subtasks[k].status = "Completed"
                THEN "Completed" ELSE task.status
  IN [tasks |-> [list EXCEPT ![i].subtasks = subtasks, ![i].status = status],
      store |-> SqlUpdateSubtasks(rows, dumps(subtasks), task.project, task.task)]

\* The complete-subtask handler (the same statements on both pages) on the
\* task at position i: the list and the table afterwards.
CompleteEffect(list, rows, i, sub_idx) ==
  LET task == list[i]
      subtasks == [task.subtasks EXCEPT ![sub_idx + 1].status = "Completed"]
  IN [tasks |-> [list EXCEPT ![i].subtasks = subtasks],
      store |-> SqlUpdateSubtasks(rows, dumps(subtasks), task.project, task.task)]

CompleteSubtask(selected_project, selected_task, idx, sub_idx) ==
  /\ Shown(selected_project, selected_task, idx)
  /\ LET Done(e) == tasks' = e.tasks /\ store' = e.store
         Click(i) == /\ sub_idx \in 0..(Len(tasks[i].subtasks) - 1)
                     /\ Done(CompleteEffect(tasks, store, i, sub_idx))
     IN Click(Listed(selected_project, selected_task, idx))
  /\ message' = "none"
  /\ UNCHANGED <<edit_mode, dup_seen, view, other>>

DeleteTask(selected_project, selected_task, idx) ==
  /\ Shown(selected_project, selected_task, idx)
  /\ LET task == tasks[Listed(selected_project, selected_task, idx)]
     IN /\ store' = SqlDelete(store, task.project, task.task)
        /\ tasks' = pop(tasks, idx)
  /\ message' = "none"
  /\ UNCHANGED <<edit_mode, dup_seen, view, other>>

EditClick(selected_project, selected_task, idx) ==
  /\ Shown(selected_project, selected_task, idx)
  /\ edit_mode' = edit_mode \cup {idx}
  /\ message' = "none"
  /\ UNCHANGED <<store, tasks, dup_seen, view, other>>

\* The export button of the page: the file holds the rows of the table.
ExportAll ==
  /\ view' = [page |-> "export", today |-> <<>>,
              rows |-> export_all_tasks_to_csv(store),
              overdue_count |-> 0, today_count |-> 0]
  /\ message' = "exported"
  /\ UNCHANGED <<store, tasks, edit_mode, dup_seen, other>>

\* Variant: a re-derived subtask keeps the status of the old subtask at its
\* place when the date code is the same.
SaveEffect_KeepStatus(list, rows, i, new_desc) ==
  LET task == list[i]
      derived == extract_subtasks(new_desc)
      new_subtasks ==
        [k \in DOMAIN derived |->
           IF k \in DOMAIN task.subtasks
              /\ task.subtasks[k].date_code = derived[k].date_code
           THEN [derived[k] EXCEPT !.status = task.subtasks[k].status]
           ELSE derived[k]]
  IN [tasks |-> [list EXCEPT ![i].description = new_desc,
                             ![i].subtasks = new_subtasks],
      store |-> SqlUpdateDescription(rows, new_desc, dumps(new_subtasks),
                                     task.project, task.task)]

\* The Save Changes handler on the task at position i: the list and the
\* table afterwards.
SaveEffect(list, rows, i, new_desc) ==
  LET task == list[i]
      Saved(new_subtasks) ==
        [tasks |-> [list EXCEPT ![i].description = new_desc,
                                ![i].subtasks = new_subtasks],
         store |-> SqlUpdateDescription(rows, new_desc, dumps(new_subtasks),
                                        task.project, task.task)]
  IN Saved(extract_subtasks(new_desc))

SaveChanges(selected_project, selected_task, idx, new_desc) ==
  /\ Shown(selected_project, selected_task, idx)
  /\ idx \in edit_mode
  /\ LET Done(e) == tasks' = e.tasks /\ store' = e.store
     IN Done(SaveEffect(tasks, store,
                        Listed(selected_project, selected_task, idx), new_desc))
  /\ message' = "updated"
  /\ edit_mode' = edit_mode \ {idx}
  /\ UNCHANGED <<dup_seen, view, other>>

(***************************************************************************)
(* Daily Tasks page.                                                       *)
(***************************************************************************)
\* Variant: a Completed subtask of today is skipped like the earlier ones.
DailyEntry_HideCompleted(today_num, idx, sub_idx, subtask) ==
  LET sub_num == int(subtask.date_code)
      status == subtask.status
  IN IF status = "Completed" /\ sub_num <= today_num THEN <<>>
     ELSE IF sub_num <= today_num
     THEN <<[idx |-> idx, sub_idx |-> sub_idx,
             style |-> IF status = "Completed" THEN "Completed"
                       ELSE IF sub_num < today_num THEN "Overdue"
                       ELSE "DueToday",
             button |-> status # "Completed"]>>
     ELSE <<>>

\* Variant: only a Not Started subtask counts as open.
DailyEntry_OnlyNotStarted(today_num, idx, sub_idx, subtask) ==
  LET sub_num == int(subtask.date_code)
      status == subtask.status
  IN IF status = "Completed" /\ sub_num < today_num THEN <<>>
     ELSE IF sub_num <= today_num
     THEN <<[idx |-> idx, sub_idx |-> sub_idx,
             style |-> IF status # "Not Started" THEN "Completed"
                       ELSE IF sub_num < today_num THEN "Overdue"
                       ELSE "DueToday",
             button |-> status = "Not Started"]>>
     ELSE <<>>

\* What the selection loop shows for one subtask: nothing, or one entry with
\* its style and whether the complete button is offered.
DailyEntry(today_num, idx, sub_idx, subtask) ==
  LET sub_num == int(subtask.date_code)
      status == subtask.status
  IN IF status = "Completed" /\ sub_num < today_num THEN <<>>
     ELSE IF sub_num <= today_num
     THEN <<[idx |-> idx, sub_idx |-> sub_idx,
             style |-> IF status = "Completed" THEN "Completed"
                       ELSE IF sub_num < today_num THEN "Overdue"
                       ELSE "DueToday",
             button |-> status # "Completed"]>>
     ELSE <<>>

RECURSIVE DailySubtasks(_, _, _, _)
DailySubtasks(today_num, idx, subtasks, sub_idx) ==
  IF sub_idx >= Len(subtasks) THEN <<>>
  ELSE DailyEntry(today_num, idx, sub_idx, subtasks[sub_idx + 1])
       \o DailySubtasks(today_num, idx, subtasks, sub_idx + 1)

RECURSIVE DailyTasks(_, _, _)
DailyTasks(today_num, list, idx) ==
  IF idx >= Len(list) THEN <<>>
  ELSE DailySubtasks(today_num, idx, list[idx + 1].subtasks, 0)
       \o DailyTasks(today_num, list, idx + 1)

DailyRows(list, today_code) == DailyTasks(int(today_code), list, 0)

RenderDaily(today_code) ==
  /\ view' = [page |-> "daily", today |-> today_code,
              rows |-> DailyRows(tasks, today_code),
              overdue_count |-> 0, today_count |-> 0]
  /\ message' = "none"
  /\ UNCHANGED <<store, tasks, edit_mode, dup_seen, other>>

CompleteToday(today_code, idx, sub_idx) ==
  /\ \E r \in Range(DailyRows(tasks, today_code)) :
        r.idx = idx /\ r.sub_idx = sub_idx /\ r.button
  /\ LET Done(e) == tasks' = e.tasks /\ store' = e.store
     IN Done(CompleteEffect(tasks, store, idx + 1, sub_idx))
  /\ message' = "none"
  /\ UNCHANGED <<edit_mode, dup_seen, view, other>>

(***************************************************************************)
(* Dashboard page.                                                         *)
(***************************************************************************)
\* Variant: the status of the subtask is not looked at.
RECURSIVE CountSubtasks_AnyStatus(_, _, _)
CountSubtasks_AnyStatus(today_num, subtasks, c) ==
  IF Len(subtasks) = 0 THEN c
  ELSE LET sub == subtasks[1]
           sub_num == int(sub.date_code)
           c2 == IF sub_num < today_num
                 THEN [c EXCEPT !.overdue_count = @ + 1]
                 ELSE IF sub_num = today_num
                 THEN [c EXCEPT !.today_count = @ + 1]
                 ELSE c
       IN CountSubtasks_AnyStatus(today_num, Tail(subtasks), c2)

\* The counters after the subtask loop of one task, from counters c.
RECURSIVE CountSubtasks(_, _, _)
CountSubtasks(today_num, subtasks, c) ==
  IF Len(subtasks) = 0 THEN c
  ELSE LET sub == subtasks[1]
           sub_num == int(sub.date_code)
           c2 == IF sub.status # "Completed"
                 THEN (IF sub_num < today_num
                       THEN [c EXCEPT !.overdue_count = @ + 1]
                       ELSE IF sub_num = today_num
                       THEN [c EXCEPT !.today_count = @ + 1]
                       ELSE c)
                 ELSE c
       IN CountSubtasks(today_num, Tail(subtasks), c2)

RECURSIVE CountTasks(_, _, _)
CountTasks(today_num, list, c) ==
  IF Len(list) = 0 THEN c
  ELSE CountTasks(today_num, Tail(list),
                  CountSubtasks(today_num, list[1].subtasks, c))

DashboardCounts(list, today_code) ==
  CountTasks(int(today_code), list, [overdue_count |-> 0, today_count |-> 0])

RenderDashboard(today_code) ==
  /\ LET Show(c) ==
           view' = [page |-> "dashboard", today |-> today_code, rows |-> <<>>,
                    overdue_count |-> c.overdue_count,
                    today_count |-> c.today_count]
     IN Show(DashboardCounts(tasks, today_code))
  /\ message' = "none"
  /\ UNCHANGED <<store, tasks, edit_mode, dup_seen, other>>

(***************************************************************************)
(* A new session: session_state is empty and the list is loaded from the   *)
(* table.  When the load raises, the script run ends with no list set.     *)
(***************************************************************************)
SessionStart ==
  /\ LET Loaded(r) == /\ tasks' = r.tasks
                      /\ message' = IF r.ok THEN "none" ELSE "error"
     IN Loaded(load_tasks_from_db(store))
  /\ edit_mode' = {}
  /\ view' = NoView
  /\ UNCHANGED <<store, dup_seen, other>>

\* The user of the other browser session acts next: each script run works on
\* the session_state of its own session and on the one tasks.db.
SwitchSession ==
  /\ tasks' = other.tasks
  /\ edit_mode' = other.edit_mode
  /\ other' = [tasks |-> tasks, edit_mode |-> edit_mode]
  /\ message' = "none"
  /\ UNCHANGED <<store, dup_seen, view>>

(***************************************************************************)
(* The session on a fresh database.                                        *)
(***************************************************************************)
Idx == 0..(MaxTasks - 1)
SubIdx == 0..1
ProjectSelections == Projects \cup {ALL_PROJECTS}
TaskSelections == TaskNames \cup {ALL_TASKS}

Next ==
  \/ \E project \in Projects, task \in TaskNames,
        description \in DescriptionInputs, status \in StatusInputs :
       SaveTask(project, task, description, status)
  \/ \E sp \in ProjectSelections, stk \in TaskSelections,
        idx \in Idx, sub_idx \in SubIdx :
       CompleteSubtask(sp, stk, idx, sub_idx)
  \/ \E sp \in ProjectSelections, stk \in TaskSelections, idx \in Idx :
       DeleteTask(sp, stk, idx)
  \/ \E sp \in ProjectSelections, stk \in TaskSelections, idx \in Idx :
       EditClick(sp, stk, idx)
  \/ \E sp \in ProjectSelections, stk \in TaskSelections, idx \in Idx,
        new_desc \in DescriptionInputs :
       SaveChanges(sp, stk, idx, new_desc)
  \/ \E today_code \in Todays, idx \in Idx, sub_idx \in SubIdx :
       CompleteToday(today_code, idx, sub_idx)
  \/ SessionStart

Spec == Init /\ [][Next]_vars

(***************************************************************************)
(* The Create Task form alone, with every input it accepts.                *)
(***************************************************************************)
NextCreate ==
  \E project \in ProjectInputs, task \in TaskInputs,
     description \in DescriptionInputs, status \in StatusOptions :
    SaveTask(project, task, description, status)

SpecCreate == Init /\ [][NextCreate]_vars

(***************************************************************************)
(* The two read-only pages over the lists a session can hold after loading *)
(* a table whose subtasks carry any of the three statuses.                 *)
(***************************************************************************)
SeqsUpTo(S, n) == UNION {[1..k -> S] : k \in 0..n}

ViewCodes == {<<"0", "6", "1", "0">>, <<"0", "6", "1", "5">>}

ViewSubtasks ==
  {[date_code |-> c, date_str |-> formatDateCode(c), title |-> <<"a">>,
    status |-> st] : c \in ViewCodes, st \in StatusOptions}

\* The description whose coded lines are the given subtasks.
RECURSIVE DescriptionOf(_)
DescriptionOf(subs) ==
  IF Len(subs) = 0 THEN <<>>
  ELSE subs[1].date_code \o <<":", " ">> \o subs[1].title
       \o (IF Len(subs) = 1 THEN <<>> ELSE <<NL>> \o DescriptionOf(Tail(subs)))

ViewTasks ==
  {Task(<<"A">>, <<"t">>, DescriptionOf(subs), "Not Started", subs) :
     subs \in SeqsUpTo(ViewSubtasks, MaxViewSubs)}

\* The row Save Task inserts for a task.
RowOf(t) ==
  Row(t.project, t.task, t.description, t.status, dumps(t.subtasks))

ViewPairs == {<<t, RowOf(t)>> : t \in ViewTasks}

InitView ==
  /\ \E ps \in SeqsUpTo(ViewPairs, MaxViewTasks) :
       /\ tasks = [k \in DOMAIN ps |-> ps[k][1]]
       /\ store = [k \in DOMAIN ps |-> ps[k][2]]
  /\ edit_mode = {}
  /\ message = "none"
  /\ dup_seen = FALSE
  /\ other = NoSession
  /\ view = NoView

\* Each loaded list is rendered on either page, on each of the days.
OpenDaily(today_code) == view = NoView /\ RenderDaily(today_code)

OpenDashboard(today_code) == view = NoView /\ RenderDashboard(today_code)

NextView ==
  \/ \E today_code \in Todays : OpenDaily(today_code)
  \/ \E today_code \in Todays : OpenDashboard(today_code)

SpecView == InitView /\ [][NextView]_vars

(***************************************************************************)
(* Session start on a table that already has rows, some of them with       *)
(* subtask text that is not JSON.                                          *)
(***************************************************************************)
GoodJson == dumps(extract_subtasks(DescTwo))
Truncated == SubSeq(GoodJson, 1, Len(GoodJson) - 1)

LoadRowKinds ==
  {Row(p, <<"t">>, <<>>, "Not Started", dumps(<<>>)) : p \in Projects}
  \cup {Row(p, <<"t">>, DescTwo, "Not Started", j) :
          p \in Projects, j \in {GoodJson, Truncated, <<>>}}

InitLoad ==
  /\ store \in SeqsUpTo(LoadRowKinds, MaxRows)
  /\ tasks = <<>>
  /\ edit_mode = {}
  /\ message = "none"
  /\ dup_seen = FALSE
  /\ other = NoSession
  /\ view = NoView

NextLoad == SessionStart

SpecLoad == InitLoad /\ [][NextLoad]_vars

(***************************************************************************)
(* The export over tables whose subtasks column holds well-formed lists,   *)
(* text that is not JSON, or a list with an object that lacks fields.      *)
(***************************************************************************)
OneDone ==
  dumps([extract_subtasks(DescTwo) EXCEPT ![1].status = "Completed"])

\* [{"title": "a"}]
PartialJson == <<"[", "{">> \o JsonMember("title", <<"a">>) \o <<"}", "]">>

ExportRowKinds ==
  {Row(p, <<"t">>, DescTwo, "Not Started", j) :
     p \in Projects,
     j \in {dumps(<<>>), OneDone, Truncated, <<>>, PartialJson}}

InitExport ==
  /\ store \in SeqsUpTo(ExportRowKinds, MaxRows)
  /\ tasks = <<>>
  /\ edit_mode = {}
  /\ message = "none"
  /\ dup_seen = FALSE
  /\ other = NoSession
  /\ view = NoView

NextExport == view = NoView /\ ExportAll

SpecExport == InitExport /\ [][NextExport]_vars

(***************************************************************************)
(* Two sessions that have each loaded the same table of one task with two  *)
(* subtasks; the users take turns on the Current Tasks and Daily Tasks     *)
(* pages.                                                                  *)
(***************************************************************************)
SharedStore ==
  <<Row(<<"A">>, <<"t">>, DescTwo, "Not Started", GoodJson)>>

InitTwo ==
  /\ store = SharedStore
  /\ tasks = load_tasks_from_db(SharedStore).tasks
  /\ edit_mode = {}
  /\ message = "none"
  /\ dup_seen = FALSE
  /\ other = [tasks |-> load_tasks_from_db(SharedStore).tasks, edit_mode |-> {}]
  /\ view = NoView

NextTwo ==
  \/ \E sub_idx \in SubIdx : CompleteSubtask(ALL_PROJECTS, ALL_TASKS, 0, sub_idx)
  \/ EditClick(ALL_PROJECTS, ALL_TASKS, 0)
  \/ \E new_desc \in DescriptionInputs :
       SaveChanges(ALL_PROJECTS, ALL_TASKS, 0, new_desc)
  \/ \E today_code \in Todays, sub_idx \in SubIdx :
       CompleteToday(today_code, 0, sub_idx)
  \/ SwitchSession

SpecTwo == InitTwo /\ [][NextTwo]_vars

(***************************************************************************)
(* One task whose description is a single coded line, for every 4-digit    *)
(* code.                                                                   *)
(***************************************************************************)
AllCodes == {<<a, b, c, d>> : a \in Digits, b \in Digits, c \in Digits, d \in Digits}

CreateCoded(code) ==
  /\ Len(tasks) = 0
  /\ SaveTask(<<"A">>, <<"t">>, code \o <<":", " ", "x">>, "Not Started")

NextDate ==
  \/ Len(tasks) = 0 /\ \E code \in AllCodes : CreateCoded(code)
  \/ CompleteSubtask(ALL_PROJECTS, ALL_TASKS, 0, 0)
  \/ \E today_code \in Todays : CompleteToday(today_code, 0, 0)

SpecDate == Init /\ [][NextDate]_vars

(***************************************************************************)
(* One task for every description of up to MaxLines lines, each line a     *)
(* coded line with text, a code and colon with nothing or a blank after    *)
(* it, plain text, or empty.                                               *)
(***************************************************************************)
LineKinds ==
  {<<"0", "6", "1", "0", ":", " ", "a">>,
   <<"0", "2", "3", "0", ":">>,
   <<"0", "6", "1", "5", ":", " ">>,
   <<"b">>,
   <<>>}

BuildDescriptions == {JoinLines(ls) : ls \in SeqsUpTo(LineKinds, MaxLines)}

CreateFrom(description) ==
  /\ Len(tasks) = 0
  /\ SaveTask(<<"A">>, <<"t">>, description, "Not Started")

NextBuild == \E description \in BuildDescriptions : CreateFrom(description)

SpecBuild == Init /\ [][NextBuild]_vars

(***************************************************************************)
(* Properties.                                                             *)
(***************************************************************************)
Count(list, x) == Cardinality({k \in DOMAIN list : list[k] = x})

\* The two lists hold the same tasks, each as often.
SameTasks(a, b) ==
  \A x \in Range(a) \cup Range(b) : Count(a, x) = Count(b, x)

\* A name that is empty or made of white space only.
Blank(s) == \A k \in DOMAIN s : IsSpace(s[k])

AllNotStarted(subs) == \A k \in DOMAIN subs : subs[k].status = "Not Started"

\* C1: as long as no two tasks ever shared a (project, task) pair, the list in
\* memory holds exactly the tasks that loading the table returns, with the same
\* description, status and subtasks.
C1_MirrorsStore ==
  ~dup_seen =>
    LET r == load_tasks_from_db(store)
    IN r.ok /\ SameTasks(tasks, r.tasks)

\* The first task of the list with the given key taken out.
WithoutFirstMatch(list, project, task) ==
  LET ks == {k \in DOMAIN list : list[k].project = project /\ list[k].task = task}
  IN IF ks = {} THEN list
     ELSE pop(list, (CHOOSE k \in ks : \A x \in ks : k <= x) - 1)

\* C2: deleting a listed task, under any filter selection, removes every row
\* of the table with its (project, task) and, from memory, exactly the first
\* task with that (project, task); no other task leaves the memory.
C2_DeleteRemovesMatching ==
  [][\A sp \in ProjectSelections, stk \in TaskSelections, idx \in Idx :
       DeleteTask(sp, stk, idx) =>
         LET task == tasks[Listed(sp, stk, idx)]
         IN /\ store' = SelectSeq(store, LAMBDA r :
                          ~(r.project = task.project /\ r.task = task.task))
            /\ tasks' = WithoutFirstMatch(tasks, task.project, task.task)]_vars

\* C3: Save Task with a project or task name that is empty or blank leaves the
\* table and the memory as they were and issues the warning.
C3_BlankNameRejected ==
  [][\A project \in ProjectInputs, task \in TaskInputs,
        description \in DescriptionInputs, status \in StatusOptions :
       ((Blank(project) \/ Blank(task))
        /\ SaveTask(project, task, description, status)) =>
         /\ Len(store') = Len(store)
         /\ tasks' = tasks
         /\ message' = "warning"]_vars

C5_CompleteIdempotent ==
  [][\A i \in DOMAIN tasks, sub_idx \in SubIdx :
       (/\ sub_idx < Len(tasks[i].subtasks)
        /\ message' = "none"
        /\ Len(tasks') = Len(tasks)
        /\ tasks' = CompleteEffect(tasks, store, i, sub_idx).tasks
        /\ store' = CompleteEffect(tasks, store, i, sub_idx).store) =>
         CompleteEffect(tasks', store', i, sub_idx)
           = [tasks |-> tasks', store |-> store']]_vars

\* A subtask is Completed in memory and in the table.
C5_Witness ==
  \E i \in DOMAIN tasks, k \in DOMAIN store :
    /\ KeyMatch(store[k], tasks[i].project, tasks[i].task)
    /\ Len(tasks[i].subtasks) = 2
    /\ tasks[i].subtasks[1].status = "Completed"
    /\ loads(store[k].subtasks).val = tasks[i].subtasks

\* The subtask a row of the Daily Tasks view stands for.
SubtaskOf(r) == tasks[r.idx + 1].subtasks[r.sub_idx + 1]

ListedInView(i, j) ==
  \E r \in Range(view.rows) : r.idx = i - 1 /\ r.sub_idx = j - 1

\* C6: the Daily Tasks view lists a (task, subtask) pair exactly when the
\* subtask is not Completed and its code, as an integer, is at most today's,
\* or it is Completed and its code equals today's.
C6_DueListMembership ==
  view.page = "daily" =>
    /\ \A r \in Range(view.rows) :
         r.idx + 1 \in DOMAIN tasks
         /\ r.sub_idx + 1 \in DOMAIN tasks[r.idx + 1].subtasks
    /\ \A i \in DOMAIN tasks : \A j \in DOMAIN tasks[i].subtasks :
         LET sub == tasks[i].subtasks[j]
         IN ListedInView(i, j) <=>
              \/ sub.status # "Completed"
                 /\ int(sub.date_code) <= int(view.today)
              \/ sub.status = "Completed"
                 /\ int(sub.date_code) = int(view.today)

\* On 0615 a Completed 0615 subtask is listed and a Completed 0610 one is not.
C6_Witness ==
  /\ view.page = "daily"
  /\ view.today = <<"0", "6", "1", "5">>
  /\ \E i \in DOMAIN tasks : \E j \in DOMAIN tasks[i].subtasks :
       /\ tasks[i].subtasks[j].status = "Completed"
       /\ tasks[i].subtasks[j].date_code = <<"0", "6", "1", "5">>
       /\ ListedInView(i, j)
  /\ \E i \in DOMAIN tasks : \E j \in DOMAIN tasks[i].subtasks :
       /\ tasks[i].subtasks[j].status = "Completed"
       /\ tasks[i].subtasks[j].date_code = <<"0", "6", "1", "0">>
       /\ ~ListedInView(i, j)

\* C7: every listed pair has one class: Completed when its status is
\* Completed, Overdue when it is not and its code is before today, DueToday
\* when it is not and its code is today; In Progress counts as not Completed;
\* the complete button is offered exactly for the pairs that are not Completed.
C7_Classification ==
  view.page = "daily" =>
    \A r \in Range(view.rows) :
      LET sub == SubtaskOf(r)
          done == sub.status = "Completed"
      IN /\ r.style \in {"Completed", "Overdue", "DueToday"}
         /\ r.style = "Completed" <=> done
         /\ r.style = "Overdue" <=>
              ~done /\ int(sub.date_code) < int(view.today)
         /\ r.style = "DueToday" <=>
              ~done /\ int(sub.date_code) = int(view.today)
         /\ r.button <=> ~done

\* An In Progress subtask is listed as Overdue, another as DueToday, each
\* with the complete button.
C7_Witness ==
  /\ view.page = "daily"
  /\ \E r \in Range(view.rows) :
       SubtaskOf(r).status = "In Progress" /\ r.style = "Overdue" /\ r.button
  /\ \E r \in Range(view.rows) :
       SubtaskOf(r).status = "In Progress" /\ r.style = "DueToday" /\ r.button

\* C8: the dashboard's overdue and due-today counters are the numbers of
\* pairs the Daily Tasks view of the same day shows as Overdue and as
\* DueToday; Completed pairs are in neither.
C8_CountsMatchDueList ==
  view.page = "dashboard" =>
    LET rows == DailyRows(tasks, view.today)
        styled(c) == Cardinality({k \in DOMAIN rows : rows[k].style = c})
    IN /\ view.overdue_count = styled("Overdue")
       /\ view.today_count = styled("DueToday")
       /\ view.overdue_count + view.today_count
            = Cardinality({k \in DOMAIN rows :
                 tasks[rows[k].idx + 1].subtasks[rows[k].sub_idx + 1].status
                   # "Completed"})

\* A dashboard that counts one due-today subtask beside a listed Completed one.
C8_Witness ==
  /\ view.page = "dashboard"
  /\ view.today = <<"0", "6", "1", "5">>
  /\ view.today_count = 1
  /\ view.overdue_count = 0
  /\ \E r \in Range(DailyRows(tasks, view.today)) : r.style = "Completed"

\* C9: when a row holds subtask text that is not JSON, loading still returns
\* one task per row, that row's task with an empty subtask list and every
\* other task with its subtasks; the load as a whole does not fail.
C9_LoadFailsClosed ==
  [][SessionStart =>
       /\ message' # "error"
       /\ Len(tasks') = Len(store)
       /\ \A k \in DOMAIN store :
            /\ k \in DOMAIN tasks'
            /\ tasks'[k].project = store[k].project
            /\ tasks'[k].task = store[k].task
            /\ tasks'[k].subtasks =
                 IF loads(store[k].subtasks).ok
                 THEN loads(store[k].subtasks).val ELSE <<>>]_vars

\* The calendar: the days a month can have in some year.
LongestMonth(m) == IF m = 2 THEN 29 ELSE IF m \in {4, 6, 9, 11} THEN 30 ELSE 31

DayExists(code) ==
  /\ int(SubSeq(code, 1, 2)) \in 1..12
  /\ int(SubSeq(code, 3, 4)) \in 1..LongestMonth(int(SubSeq(code, 1, 2)))

\* C10: the date string of a code is "Invalid date (CODE)" exactly when no
\* year has that month and day, and the month's name and the two-digit day
\* otherwise.
C10_DateString ==
  \A i \in DOMAIN tasks : \A j \in DOMAIN tasks[i].subtasks :
    LET sub == tasks[i].subtasks[j]
        code == sub.date_code
    IN sub.date_str =
         IF DayExists(code)
         THEN <<MonthName[int(SubSeq(code, 1, 2))], " ", code[3], code[4]>>
         ELSE <<"Invalid date (">> \o code \o <<")">>

\* The lines of a text, split at the newlines.
RECURSIVE SplitLines(_, _)
SplitLines(t, k) ==
  LET e == EndOfLine(t, k)
  IN IF e > Len(t) THEN <<SubSeq(t, k, Len(t))>>
     ELSE <<SubSeq(t, k, e - 1)>> \o SplitLines(t, e + 1)

\* The matches of the pattern in each line taken alone, line after line.
RECURSIVE PerLine(_)
PerLine(lines) ==
  IF Len(lines) = 0 THEN <<>>
  ELSE findall(lines[1], 1) \o PerLine(Tail(lines))

\* C11: the subtasks of a created task are, in order, one per coded line of
\* its description, with the four digits of that line as date_code, the rest
\* of that same line as title and status Not Started; an empty description
\* gives no subtask, and no title reaches into a following line.
C11_OnePerCodedLine ==
  \A i \in DOMAIN tasks :
    LET want == PerLine(SplitLines(tasks[i].description, 1))
        got == tasks[i].subtasks
    IN /\ Len(got) = Len(want)
       /\ \A k \in DOMAIN got :
            /\ k \in DOMAIN want
            /\ got[k].date_code = want[k].code
            /\ got[k].title = want[k].text
            /\ got[k].status = "Not Started"
            /\ \A c \in DOMAIN got[k].title : got[k].title[c] # NL

\* The step is the complete-subtask handler on some subtask of the task at i.
CompleteStep(i) ==
  \E sub_idx \in SubIdx :
    /\ sub_idx < Len(tasks[i].subtasks)
    /\ message' = "none"
    /\ tasks' = CompleteEffect(tasks, store, i, sub_idx).tasks
    /\ store' = CompleteEffect(tasks, store, i, sub_idx).store

\* The step is the Save Changes handler on the task at i.
EditStep(i) ==
  /\ message' = "updated"
  /\ \E new_desc \in DescriptionInputs :
       /\ tasks' = SaveEffect(tasks, store, i, new_desc).tasks
       /\ store' = SaveEffect(tasks, store, i, new_desc).store

\* C12: a complete-subtask step (on either page) and a Save Changes step
\* leave the status of every task as it was, in memory and in every row of
\* the table, also when the step completes the last open subtask of a task.
C12_TaskStatusKept ==
  [][\A i \in DOMAIN tasks :
       (CompleteStep(i) \/ EditStep(i)) =>
         /\ Len(tasks') = Len(tasks)
         /\ \A j \in DOMAIN tasks : tasks'[j].status = tasks[j].status
         /\ Len(store') = Len(store)
         /\ \A k \in DOMAIN store : store'[k].status = store[k].status]_vars

\* A task whose two subtasks are both Completed, with its row, after a
\* complete step.
C12_Witness ==
  /\ message = "none"
  /\ \E i \in DOMAIN tasks, k \in DOMAIN store :
       /\ KeyMatch(store[k], tasks[i].project, tasks[i].task)
       /\ Len(tasks[i].subtasks) = 2
       /\ \A j \in DOMAIN tasks[i].subtasks :
            tasks[i].subtasks[j].status = "Completed"
       /\ tasks[i].status = "Not Started"
       /\ store[k].status = "Not Started"
       /\ loads(store[k].subtasks).val = tasks[i].subtasks

\* One row of the export per row of the table, with the row's own columns.
OneRowEach ==
  /\ Len(view.rows) = Len(store)
  /\ \A k \in DOMAIN store :
       /\ view.rows[k].Project = store[k].project
       /\ view.rows[k].Task = store[k].task
       /\ view.rows[k].Description = store[k].description
       /\ view.rows[k].Status = store[k].status

\* "<date_str>: <title> [<status>]" per subtask, "?" for a field it lacks.
Rendered(subs) ==
  JoinLines([k \in DOMAIN subs |->
    (IF "date_str" \in DOMAIN subs[k] THEN subs[k].date_str ELSE <<"?">>)
    \o <<":", " ">>
    \o (IF "title" \in DOMAIN subs[k] THEN subs[k].title ELSE <<"?">>)
    \o <<" ", "[">>
    \o <<IF "status" \in DOMAIN subs[k] THEN subs[k].status ELSE "?">>
    \o <<"]">>])

\* The text is a JSON list of subtasks, each with its four fields.
WellFormed(t) ==
  /\ loads(t).ok
  /\ \A k \in DOMAIN loads(t).val :
       DOMAIN loads(t).val[k] = {"date_code", "date_str", "title", "status"}

\* C13 as stated: the export has one row per row of the table; a row whose
\* subtask data is malformed has the Subtasks field "[Invalid subtasks]",
\* every other row its subtasks as "<date_str>: <title> [<status>]" entries
\* in order.
C13_ExportIsolatesMalformed ==
  view.page = "export" =>
    /\ OneRowEach
    /\ \A k \in DOMAIN store :
         view.rows[k].Subtasks =
           IF WellFormed(store[k].subtasks)
           THEN Rendered(loads(store[k].subtasks).val)
           ELSE <<"[Invalid subtasks]">>

\* C13, amended: the export has one row per row of the table; a row whose
\* subtask text does not parse as JSON has the Subtasks field
\* "[Invalid subtasks]"; a row whose text parses has one entry per subtask
\* object, in order, with "?" in place of a field the object lacks.
C13_ExportIsolatesUnparsable ==
  view.page = "export" =>
    /\ OneRowEach
    /\ \A k \in DOMAIN store :
         view.rows[k].Subtasks =
           IF loads(store[k].subtasks).ok
           THEN Rendered(loads(store[k].subtasks).val)
           ELSE <<"[Invalid subtasks]">>

\* An export of two rows: one with text that is not JSON, one with an object
\* that has only a title.
C13_Witness ==
  /\ view.page = "export"
  /\ \E k \in DOMAIN store :
       ~loads(store[k].subtasks).ok
       /\ view.rows[k].Subtasks = <<"[Invalid subtasks]">>
  /\ \E k \in DOMAIN store :
       store[k].subtasks = PartialJson
       /\ view.rows[k].Subtasks = <<"?", ":", " ", "a", " ", "[", "?", "]">>

\* The stored subtask list of every row with the key of the task at i is the
\* list the acting session holds for that task.
StoreHoldsWriter(i) ==
  \A k \in DOMAIN store' :
    KeyMatch(store'[k], tasks[i].project, tasks[i].task) =>
      loads(store'[k].subtasks) = [ok |-> TRUE, val |-> tasks'[i].subtasks]

\* C14: whatever the other session has written meanwhile, a complete or a
\* Save Changes of the acting session goes through, and afterwards the
\* stored subtask list of the task's key is the acting session's own full
\* list: the last write wins.
C14_LastWriteWins ==
  [][\A i \in DOMAIN tasks :
       (CompleteStep(i) \/ EditStep(i)) => StoreHoldsWriter(i)]_vars

\* Both sessions have completed a different subtask of the same task; the
\* table holds the list of the session that wrote last, in which the subtask
\* the other session completed is still Not Started.
C14_Witness ==
  /\ Len(tasks) = 1 /\ Len(other.tasks) = 1 /\ Len(store) = 1
  /\ Len(tasks[1].subtasks) = 2 /\ Len(other.tasks[1].subtasks) = 2
  /\ other.tasks[1].subtasks[1].status = "Completed"
  /\ other.tasks[1].subtasks[2].status = "Not Started"
  /\ tasks[1].subtasks[1].status = "Not Started"
  /\ tasks[1].subtasks[2].status = "Completed"
  /\ loads(store[1].subtasks).val = tasks[1].subtasks

\* C15: a complete step on subtask sub_idx of the task at i sets that
\* subtask's status to Completed and changes nothing else: in memory every
\* other subtask and every other task stay as they were, and in the table at
\* most the one row of that task changes, every row of another task keeping
\* its description, status and subtask list (also when two tasks share a
\* (project, task) pair).
C15_CompleteFrame ==
  [][\A i \in DOMAIN tasks, sub_idx \in SubIdx :
       (/\ sub_idx < Len(tasks[i].subtasks)
        /\ message' = "none"
        /\ tasks' = CompleteEffect(tasks, store, i, sub_idx).tasks
        /\ store' = CompleteEffect(tasks, store, i, sub_idx).store) =>
         /\ tasks' = [tasks EXCEPT ![i].subtasks[sub_idx + 1].status = "Completed"]
         /\ Len(store') = Len(store)
         /\ Cardinality({k \in DOMAIN store : store'[k] # store[k]}) <= 1
         /\ \A k \in DOMAIN store :
              store'[k] # store[k] =>
                /\ KeyMatch(store[k], tasks[i].project, tasks[i].task)
                /\ store'[k] = [store[k] EXCEPT
                                  !.subtasks = dumps(tasks'[i].subtasks)]]_vars

\* The subtask lists the table holds, row by row (none for text that does
\* not parse).
Stored(rows) == [k \in DOMAIN rows |-> loads(rows[k].subtasks).val]

SubtaskLists(list) == [k \in DOMAIN list |-> list[k].subtasks]

\* Every subtask of the lists is Not Started or Completed.
NeverInProgress(lists) ==
  \A i \in DOMAIN lists : \A j \in DOMAIN lists[i] :
    lists[i][j].status \in {"Not Started", "Completed"}

\* Every subtask that is Completed in the lists a is still there, Completed,
\* in the lists b.
StaysCompleted(a, b) ==
  \A i \in DOMAIN a : \A j \in DOMAIN a[i] :
    a[i][j].status = "Completed" =>
      /\ i \in DOMAIN b
      /\ j \in DOMAIN b[i]
      /\ b[i][j].status = "Completed"

\* C16: in memory and in the table every subtask is Not Started or
\* Completed, and every step other than a Save Changes and a delete leaves
\* each Completed subtask Completed, in memory and in the table.
C16_CompletedStays ==
  [][/\ NeverInProgress(SubtaskLists(tasks'))
     /\ NeverInProgress(Stored(store'))
     /\ (message' # "updated" /\ Len(tasks') >= Len(tasks)) =>
          /\ StaysCompleted(SubtaskLists(tasks), SubtaskLists(tasks'))
          /\ StaysCompleted(Stored(store), Stored(store'))]_vars

====
